---- MODULE Spec2Model ----
(***************************************************************************)
(* A model of the MemoryStream backend (src/backend/server.js): the        *)
(* in-memory store db.users / db.memories, the EncryptionManager and       *)
(* MemoryManager utilities, and the register, login, create, list, search  *)
(* and dashboard request handlers.                                         *)
(*                                                                         *)
(* Strings are TLA+ strings; JavaScript string methods are computed        *)
(* character by character.  Time is counted in whole days.  Scores are     *)
(* exact rationals num/den, with the IEEE value NaN kept apart.            *)
(***************************************************************************)
EXTENDS Integers, Sequences, FiniteSets, TLC

(***************************************************************************)
(* Bounds of the model.                                                    *)
(***************************************************************************)
MaxMemories == 3

\* the clock readings (in days) at which requests arrive
Instants == {0, 1, 5, 11}

(***************************************************************************)
(* JavaScript string and array primitives.                                 *)
(***************************************************************************)
UpperAlphabet == "ABCDEFGHIJKLMNOPQRSTUVWXYZ"
LowerAlphabet == "abcdefghijklmnopqrstuvwxyz"
Digits == "0123456789"

CharAt(s, i) == SubSeq(s, i, i)

\* the lower-case letter of every upper-case letter
LowerOf ==
    [c \in {CharAt(UpperAlphabet, i) : i \in 1..Len(UpperAlphabet)} |->
        CharAt(LowerAlphabet,
               CHOOSE i \in 1..Len(UpperAlphabet) : CharAt(UpperAlphabet, i) = c)]

\* the value of every decimal digit
DigitValue ==
    [c \in {CharAt(Digits, i) : i \in 1..Len(Digits)} |->
        (CHOOSE i \in 1..Len(Digits) : CharAt(Digits, i) = c) - 1]

LowerChar(c) == IF c \in DOMAIN LowerOf THEN LowerOf[c] ELSE c

RECURSIVE toLowerCase(_)
toLowerCase(s) ==
    IF s = "" THEN ""
    ELSE LowerChar(CharAt(s, 1)) \o toLowerCase(SubSeq(s, 2, Len(s)))

\* String.prototype.includes
includes(text, k) ==
    \E i \in 1..(Len(text) - Len(k) + 1) : SubSeq(text, i, i + Len(k) - 1) = k

\* String.prototype.split with a one-character separator
RECURSIVE SplitFrom(_, _, _)
SplitFrom(s, sep, cur) ==
    IF s = "" THEN <<cur>>
    ELSE IF CharAt(s, 1) = sep
         THEN <<cur>> \o SplitFrom(SubSeq(s, 2, Len(s)), sep, "")
         ELSE SplitFrom(SubSeq(s, 2, Len(s)), sep, cur \o CharAt(s, 1))

split(s, sep) == SplitFrom(s, sep, "")

\* Array.prototype.join
RECURSIVE join(_, _)
join(arr, sep) ==
    IF arr = <<>> THEN ""
    ELSE IF Len(arr) = 1 THEN arr[1]
    ELSE arr[1] \o sep \o join(Tail(arr), sep)

\* Array.prototype.includes on an array of strings (filter is SelectSeq)
arrayIncludes(arr, x) == \E i \in 1..Len(arr) : arr[i] = x

Min(a, b) == IF a < b THEN a ELSE b
Max(a, b) == IF a > b THEN a ELSE b

\* Array.prototype.slice(start, end) with 0 <= start, 0 <= end (0-based, end exclusive)
slice(arr, start, end) ==
    SubSeq(arr, Min(start, Len(arr)) + 1, Min(end, Len(arr)))

\* Array.prototype.sort(cmp), which is stable.  after[i][j] is
\* cmp(arr[i], arr[j]) > 0.  The element at index i ends up behind every
\* element that sorts before it and behind every earlier element that
\* compares equal to it.
\* a sort that puts the later of two equal elements first
SortRankLaterFirst(arr, i, after) ==
    1 + Cardinality({j \in 1..Len(arr) :
            after[i][j] \/ (~after[j][i] /\ j > i)})

SortRank(arr, i, after) ==
    1 + Cardinality({j \in 1..Len(arr) :
            after[i][j] \/ (~after[j][i] /\ j < i)})

sort(arr, after) ==
    [k \in 1..Len(arr) |->
        arr[CHOOSE i \in 1..Len(arr) : SortRank(arr, i, after) = k]]

\* parseInt of a string of decimal digits; NaN (modelled as -1) otherwise
RECURSIVE ParseDigits(_, _)
ParseDigits(s, acc) ==
    IF s = "" THEN acc
    ELSE IF CharAt(s, 1) \notin DOMAIN DigitValue THEN -1
    ELSE ParseDigits(SubSeq(s, 2, Len(s)), acc * 10 + DigitValue[CharAt(s, 1)])

parseInt(s) == IF s = "" THEN -1 ELSE ParseDigits(s, 0)

(***************************************************************************)
(* Regular expressions: the character classes and the three patterns of    *)
(* MemoryManager.extractEntities, matched as the engine matches them       *)
(* (leftmost start, greedy quantifiers, backtracking).                     *)
(***************************************************************************)
CharsOf(s) == {CharAt(s, i) : i \in 1..Len(s)}

Letters == CharsOf(UpperAlphabet) \cup CharsOf(LowerAlphabet)
DigitChars == CharsOf(Digits)
\* \w, \s
WordChars == Letters \cup DigitChars \cup {"_"}
SpaceChars == {" ", "\t", "\n", "\r"}
\* [A-Za-z0-9._%+-], [A-Za-z0-9.-], [A-Z|a-z]
LocalChars == Letters \cup DigitChars \cup {".", "_", "%", "+", "-"}
DomainChars == Letters \cup DigitChars \cup {".", "-"}
TldChars == Letters \cup {"|"}

SetMin(S) == CHOOSE x \in S : \A y \in S : x <= y
SetMax(S) == CHOOSE x \in S : \A y \in S : x >= y

\* the character at index i is one of class
In(text, i, class) == i \in 1..Len(text) /\ CharAt(text, i) \in class

\* the last index of the longest run of class characters that starts at i
\* (i - 1 when there is none)
RunEnd(text, i, class) ==
    LET stops == {j \in i..Len(text) : CharAt(text, j) \notin class}
    IN  IF stops = {} THEN Max(Len(text), i - 1) ELSE SetMin(stops) - 1

\* \b between index p and index p + 1
Boundary(text, p) == In(text, p, WordChars) # In(text, p + 1, WordChars)

StartsWith(text, i, k) ==
    i + Len(k) - 1 <= Len(text) /\ SubSeq(text, i, i + Len(k) - 1) = k

\* /https?:\/\/[^\s]+/ matched at index i: the index of its last character,
\* 0 when it does not match there
UrlEnd(text, i) ==
    LET p == IF StartsWith(text, i, "https://") THEN 8
             ELSE IF StartsWith(text, i, "http://") THEN 7 ELSE 0
        stops == {j \in (i + p)..Len(text) : CharAt(text, j) \in SpaceChars}
        r == IF stops = {} THEN Len(text) ELSE SetMin(stops) - 1
    IN  IF p > 0 /\ r >= i + p THEN r ELSE 0

\* /\b\d{1,2}\/\d{1,2}\/\d{4}\b|\b\d{4}-\d{2}-\d{2}\b/ matched at index i
DateEnd(text, i) ==
    LET Digs(from, n) == \A k \in 0..(n - 1) : In(text, from + k, DigitChars)
        SlashOk(a, b) ==
            /\ Digs(i, a) /\ In(text, i + a, {"/"})
            /\ Digs(i + a + 1, b) /\ In(text, i + a + b + 1, {"/"})
            /\ Digs(i + a + b + 2, 4)
            /\ Boundary(text, i + a + b + 5)
        slashes == {ab \in {2, 1} \X {2, 1} : SlashOk(ab[1], ab[2])}
        IsoOk ==
            /\ Digs(i, 4) /\ In(text, i + 4, {"-"})
            /\ Digs(i + 5, 2) /\ In(text, i + 7, {"-"})
            /\ Digs(i + 8, 2)
            /\ Boundary(text, i + 9)
    IN  IF ~Boundary(text, i - 1) THEN 0
        ELSE IF slashes # {}
        THEN LET ab == CHOOSE x \in slashes : TRUE IN i + ab[1] + ab[2] + 5
        ELSE IF IsoOk THEN i + 9 ELSE 0

\* /\b[A-Za-z0-9._%+-]+@[A-Za-z0-9.-]+\.[A-Z|a-z]{2,}\b/ matched at index i:
\* the domain takes the last dot that leaves a top-level part, the
\* top-level part the longest run that ends at a word boundary
EmailEnd(text, i) ==
    LET at == RunEnd(text, i, LocalChars) + 1
        r == RunEnd(text, at + 1, DomainChars)
        TldEnds(d) == {e \in (d + 2)..RunEnd(text, d + 1, TldChars) :
                         Boundary(text, e)}
        dots == {d \in (at + 2)..r : In(text, d, {"."}) /\ TldEnds(d) # {}}
    IN  IF /\ Boundary(text, i - 1)
           /\ at > i
           /\ In(text, at, {"@"})
           /\ dots # {}
        THEN SetMax(TldEnds(SetMax(dots)))
        ELSE 0

\* String.prototype.match with a global pattern, || []: the matches from
\* left to right, none overlapping.  ends[i] is the end of the pattern's
\* match at index i, 0 for none.
RECURSIVE MatchesFrom(_, _, _)
MatchesFrom(text, ends, pos) ==
    LET starts == {i \in pos..Len(text) : ends[i] > 0}
    IN  IF starts = {} THEN <<>>
        ELSE LET i == SetMin(starts)
             IN  <<SubSeq(text, i, ends[i])>> \o MatchesFrom(text, ends, ends[i] + 1)

match(text, ends) == MatchesFrom(text, ends, 1)

VARIABLES
    users,      \* db.users: the user records, in insertion order (a Map keyed by email)
    memories,   \* db.memories: the memory records, in insertion order (a Map keyed by id)
    now,        \* Date.now(), in days
    resp        \* the response to the request handled by the last step

vars == <<users, memories, now, resp>>

(***************************************************************************)
(* EncryptionManager.                                                      *)
(***************************************************************************)
\* crypto.generateKeyPairSync: a fresh pair, numbered n
generateKeyPair(n) ==
    [publicKey  |-> [kind |-> "public", pair |-> n],
     privateKey |-> [kind |-> "private", pair |-> n]]

\* RSA with a 2048-bit modulus and OAEP padding carries at most 256 - 42 bytes
ModulusLength == 2048
OaepOverhead == 42
RsaMaxPayload == (ModulusLength \div 8) - OaepOverhead

Ok(v) == [ok |-> TRUE, value |-> v]
Thrown == [ok |-> FALSE, value |-> "Error"]

\* JSON.stringify / JSON.parse of a string without special characters
JSONstringify(data) == "\"" \o data \o "\""

JSONparse(text) ==
    IF /\ Len(text) >= 2
       /\ CharAt(text, 1) = "\""
       /\ CharAt(text, Len(text)) = "\""
    THEN Ok(SubSeq(text, 2, Len(text) - 1))
    ELSE Thrown

\* crypto.publicEncrypt throws on a payload longer than the key allows
publicEncrypt(publicKey, buffer) ==
    IF publicKey.kind # "public" \/ Len(buffer) > RsaMaxPayload THEN Thrown
    ELSE Ok([pair |-> publicKey.pair, sealed |-> buffer])

\* a decryption that never checks which key it is given
privateDecryptAnyKey(privateKey, buffer) == Ok(buffer.sealed)

\* crypto.privateDecrypt throws unless the key is the pair's private key
privateDecrypt(privateKey, buffer) ==
    IF privateKey.kind # "private" \/ buffer.pair # privateKey.pair THEN Thrown
    ELSE Ok(buffer.sealed)

encryptData(data, publicKey) ==
    LET encrypted == publicEncrypt(publicKey, JSONstringify(data))
    IN  IF encrypted.ok THEN Ok([base64 |-> encrypted.value]) ELSE Thrown

decryptData(encryptedData, privateKey) ==
    LET decrypted == privateDecrypt(privateKey, encryptedData.base64)
    IN  IF decrypted.ok THEN JSONparse(decrypted.value) ELSE Thrown

\* bcrypt.hashSync / bcrypt.compareSync: the hash is not the password, and
\* only the password it was made from verifies against it
hashPassword(password) == [bcrypt |-> password]

verifyPassword(password, hash) == hash.bcrypt = password

(***************************************************************************)
(* MemoryManager.                                                          *)
(***************************************************************************)
\* Scores: exact rationals num/den (den > 0), or NaN
Num(n, d) == [nan |-> FALSE, num |-> n, den |-> d]
NaN == [nan |-> TRUE, num |-> 0, den |-> 1]

\* a > b as JavaScript compares numbers: false when either is NaN
Greater(a, b) == ~a.nan /\ ~b.nan /\ a.num * b.den > b.num * a.den

\* Math.min(a, b)
MathMin(a, b) == IF a.nan \/ b.nan THEN NaN ELSE IF Greater(a, b) THEN b ELSE a

\* a + b
Plus(a, b) ==
    IF a.nan \/ b.nan THEN NaN
    ELSE Num(a.num * b.den + b.num * a.den, a.den * b.den)

\* a / b * c for integers a, b, c: 0 / 0 is NaN
DivTimes(a, b, c) ==
    IF b = 0 THEN (IF a = 0 THEN NaN ELSE Num(1000000, 1)) ELSE Num(a * c, b)

\* memory.content as it reads in a string concatenation: "undefined" when
\* the record has no such property
ContentOf(memory) ==
    IF "content" \in DOMAIN memory THEN memory.content ELSE "undefined"

\* a score without the recency boost
RecencyTermNone(memory) == Num(0, 10)

\* a recency that counts the days from now back to the timestamp
RecencyTermReversed(memory) == Num(Max(0, 10 - (memory.timestamp - now)), 10)

RecencyTerm(memory) == Num(Max(0, 10 - (now - memory.timestamp)), 10)

FrequencyTerm(memory) == Num(memory.accessCount, 20)

ContextTerm(memory, context) ==
    LET memoryText ==
            toLowerCase(ContentOf(memory) \o " " \o join(memory.tags, " "))
        contextKeywords ==
            [i \in 1..Len(context.keywords) |-> toLowerCase(context.keywords[i])]
        matches ==
            Len(SelectSeq(contextKeywords, LAMBDA k : includes(memoryText, k)))
    IN  DivTimes(matches, Len(contextKeywords), 5)

calculateRelevanceScore(memory, context) ==
    LET base == Plus(RecencyTerm(memory), FrequencyTerm(memory))
        score == IF context.hasKeywords
                 THEN Plus(base, ContextTerm(memory, context))
                 ELSE base
    IN  MathMin(score, Num(10, 1))

(***************************************************************************)
(* The requests the clients send.                                          *)
(***************************************************************************)
Repeat(s, n) == LET Rep[k \in 0..n] == IF k = 0 THEN "" ELSE s \o Rep[k - 1]
                IN  Rep[n]

RegisterBodies ==
    { [email |-> "a@x.io", password |-> "password-a", name |-> "Ann"],
      [email |-> "B@x.io", password |-> "password-b", name |-> "Bob"],
      [email |-> "b@x.io", password |-> "short",      name |-> "Bob"] }

\* req.body of POST /api/auth/login
LoginBodies ==
    { [email |-> "a@x.io", password |-> "password-a"],
      [email |-> "b@x.io", password |-> "password-a"],
      [email |-> "b@x.io", password |-> ""] }

\* a validator that lets one more type through
MemoryTypesWithVideo == {"conversation", "document", "note", "insight", "video"}

MemoryTypes == {"conversation", "document", "note", "insight"}

M1Body == [content |-> "Meeting about budget", type |-> "note",
           source |-> "chat", tags |-> <<"budget">>]
M2Body == [content |-> "Birthday reminder", type |-> "note",
           source |-> "mail", tags |-> <<"family">>]

CreateBodies ==
    { M1Body, M2Body,
      [content |-> "Holiday video", type |-> "video",
       source |-> "chat", tags |-> <<>>],
      [content |-> Repeat("0123456789", 22), type |-> "document",
       source |-> "chat", tags |-> <<>>] }

NoParams == [k \in {} |-> ""]

\* req.query of GET /api/memories: every value is a string
ListQueries ==
    { NoParams,
      [limit |-> "1"],
      [limit |-> "1", offset |-> "1"],
      [limit |-> "1", offset |-> "2"],
      [limit |-> "2", offset |-> "0"],
      [type |-> "note"],
      [source |-> "mail"],
      [tags |-> "work,family"] }

\* req.body of POST /api/memories/search
SearchBodies ==
    { [query |-> "budget"],
      [query |-> "budget", limit |-> 1],
      [query |-> "budget", limit |-> 0],
      [query |-> "Budget plan", context |-> [keywords |-> <<>>]],
      [query |-> "budget", context |-> [keywords |-> <<"FAMILY">>]],
      [query |-> "birthday", context |-> [topic |-> "party"]],
      [query |-> ""] }

Has(rec, field) == field \in DOMAIN rec

\* crypto.randomUUID() for the user registering an email: a fresh id
UserIdFor(email) == "user-" \o email

\* the ids a verified token can carry: those of the users, and the id of a
\* user this store does not hold
UnknownUserId == "user-nobody"
TokenIds == {UnknownUserId} \cup {users[e].id : e \in DOMAIN users}

NoResponse == [op |-> "none"]

\* the server is between two requests: the last response has been sent
Idle == resp = NoResponse

Init ==
    /\ users = NoParams
    /\ memories = <<>>
    /\ now = 0
    /\ resp = NoResponse

(***************************************************************************)
(* POST /api/auth/register                                                 *)
(***************************************************************************)
\* express-validator's normalizeEmail lower-cases the address
normalizeEmail(email) == toLowerCase(email)

\* Map.prototype.set
MapSet(map, key, value) ==
    [k \in DOMAIN map \cup {key} |-> IF k = key THEN value ELSE map[k]]

\* jwt.sign({ id, email }, JWT_SECRET)
Token(id, email) == [id |-> id, email |-> email]

DefaultPreferences ==
    [privacyLevel |-> "high", dataRetention |-> "1year", crossPlatformSync |-> TRUE]

\* the user record that registration stores (createdAt is not modelled)
NewUser(body) ==
    LET email == normalizeEmail(body.email)
        userId == UserIdFor(email)
        keys == generateKeyPair(userId)
    IN  [id |-> userId,
         email |-> email,
         name |-> body.name,
         passwordHash |-> hashPassword(body.password),
         publicKey |-> keys.publicKey,
         privateKey |-> keys.privateKey,
         preferences |-> DefaultPreferences,
         stats |-> [totalMemories |-> 0, totalInteractions |-> 0,
                    connectedServices |-> 0]]

\* a registration that does not look for an existing user
RegisterOverwriting(body, keygenOk) ==
    LET email == normalizeEmail(body.email)
        userId == UserIdFor(email)
        user == NewUser(body)
    IN  /\ Idle
        /\ IF Len(body.password) < 8 \/ body.name = ""
           THEN /\ resp' = [op |-> "register", status |-> 400, req |-> body,
                            json |-> [errors |-> "validation"]]
                /\ UNCHANGED <<users, memories, now>>
           ELSE IF ~keygenOk
           THEN /\ resp' = [op |-> "register", status |-> 500, req |-> body,
                            json |-> [error |-> "Internal server error"]]
                /\ UNCHANGED <<users, memories, now>>
           ELSE /\ users' = MapSet(users, email, user)
                /\ resp' = [op |-> "register", status |-> 201, req |-> body,
                            json |-> [message |-> "User created successfully",
                                      token |-> Token(userId, email),
                                      user |-> [id |-> userId, email |-> email,
                                                name |-> body.name,
                                                publicKey |-> user.publicKey,
                                                preferences |-> user.preferences]]]
                /\ UNCHANGED <<memories, now>>

\* a registration that stores the user before it generates the keys
RegisterStoringFirst(body, keygenOk) ==
    LET email == normalizeEmail(body.email)
        userId == UserIdFor(email)
        user == NewUser(body)
        keyless == [kind |-> "undefined", pair |-> userId]
    IN  /\ Idle
        /\ IF Len(body.password) < 8 \/ body.name = ""
           THEN /\ resp' = [op |-> "register", status |-> 400, req |-> body,
                            json |-> [errors |-> "validation"]]
                /\ UNCHANGED <<users, memories, now>>
           ELSE IF email \in DOMAIN users
           THEN /\ resp' = [op |-> "register", status |-> 400, req |-> body,
                            json |-> [error |-> "User already exists"]]
                /\ UNCHANGED <<users, memories, now>>
           ELSE IF ~keygenOk
           THEN /\ users' = MapSet(users, email,
                                   [user EXCEPT !.publicKey = keyless,
                                                !.privateKey = keyless])
                /\ resp' = [op |-> "register", status |-> 500, req |-> body,
                            json |-> [error |-> "Internal server error"]]
                /\ UNCHANGED <<memories, now>>
           ELSE /\ users' = MapSet(users, email, user)
                /\ resp' = [op |-> "register", status |-> 201, req |-> body,
                            json |-> [message |-> "User created successfully",
                                      token |-> Token(userId, email),
                                      user |-> [id |-> userId, email |-> email,
                                                name |-> body.name,
                                                publicKey |-> user.publicKey,
                                                preferences |-> user.preferences]]]
                /\ UNCHANGED <<memories, now>>

\* keygenOk: whether crypto.generateKeyPairSync returns (it throws otherwise)
Register(body, keygenOk) ==
    LET email == normalizeEmail(body.email)
        userId == UserIdFor(email)
        user == NewUser(body)
    IN  /\ Idle
        /\ IF Len(body.password) < 8 \/ body.name = ""
           THEN /\ resp' = [op |-> "register", status |-> 400, req |-> body,
                            json |-> [errors |-> "validation"]]
                /\ UNCHANGED <<users, memories, now>>
           ELSE IF email \in DOMAIN users
           THEN /\ resp' = [op |-> "register", status |-> 400, req |-> body,
                            json |-> [error |-> "User already exists"]]
                /\ UNCHANGED <<users, memories, now>>
           ELSE IF ~keygenOk
           THEN /\ resp' = [op |-> "register", status |-> 500, req |-> body,
                            json |-> [error |-> "Internal server error"]]
                /\ UNCHANGED <<users, memories, now>>
           ELSE /\ users' = MapSet(users, email, user)
                /\ resp' = [op |-> "register", status |-> 201, req |-> body,
                            json |-> [message |-> "User created successfully",
                                      token |-> Token(userId, email),
                                      user |-> [id |-> userId, email |-> email,
                                                name |-> body.name,
                                                publicKey |-> user.publicKey,
                                                preferences |-> user.preferences]]]
                /\ UNCHANGED <<memories, now>>

(***************************************************************************)
(* POST /api/auth/login                                                    *)
(***************************************************************************)
Login(body) ==
    LET email == normalizeEmail(body.email)
    IN  /\ Idle
        /\ IF body.password = ""
           THEN resp' = [op |-> "login", status |-> 400, req |-> body,
                         json |-> [errors |-> "validation"]]
           ELSE IF \/ email \notin DOMAIN users
                   \/ ~verifyPassword(body.password, users[email].passwordHash)
           THEN resp' = [op |-> "login", status |-> 401, req |-> body,
                         json |-> [error |-> "Invalid credentials"]]
           ELSE resp' = [op |-> "login", status |-> 200, req |-> body,
                         json |-> [token |-> Token(users[email].id, email),
                                   user |-> [id |-> users[email].id,
                                             email |-> users[email].email,
                                             name |-> users[email].name,
                                             publicKey |-> users[email].publicKey,
                                             preferences |-> users[email].preferences,
                                             stats |-> users[email].stats]]]
        /\ UNCHANGED <<users, memories, now>>

(***************************************************************************)
(* POST /api/memories                                                      *)
(***************************************************************************)
extractEntities(text) ==
    [people |-> <<>>, organizations |-> <<>>, locations |-> <<>>,
     dates |-> match(text, [i \in 1..Len(text) |-> DateEnd(text, i)]),
     topics |-> <<>>,
     emails |-> match(text, [i \in 1..Len(text) |-> EmailEnd(text, i)]),
     urls |-> match(text, [i \in 1..Len(text) |-> UrlEnd(text, i)])]

\* [...db.users.values()].find(u => u.id === id): the key of the user found,
\* "" for undefined
FindUser(id) ==
    IF \E e \in DOMAIN users : users[e].id = id
    THEN CHOOSE e \in DOMAIN users : users[e].id = id
    ELSE ""

\* the memory record that create stores (metadata and permissions are not
\* modelled)
\* a record that starts with one access counted
NewMemoryAccessed(memoryId, userId, body, encryptedContent, timestamp) ==
    [id |-> memoryId,
     userId |-> userId,
     encryptedContent |-> encryptedContent,
     type |-> body.type,
     source |-> body.source,
     tags |-> body.tags,
     entities |-> extractEntities(body.content),
     timestamp |-> timestamp,
     accessCount |-> 1,
     relevanceScore |-> Num(1, 1)]

NewMemory(memoryId, userId, body, encryptedContent, timestamp) ==
    [id |-> memoryId,
     userId |-> userId,
     encryptedContent |-> encryptedContent,
     type |-> body.type,
     source |-> body.source,
     tags |-> body.tags,
     entities |-> extractEntities(body.content),
     timestamp |-> timestamp,
     accessCount |-> 0,
     relevanceScore |-> Num(1, 1)]

\* a create that makes the record visible and leaves the counting for later
CreateUncounted(uid, body) ==
    LET u == FindUser(uid)
        memoryId == Len(memories) + 1
        entities == extractEntities(body.content)
        encrypted == encryptData(body.content, users[u].publicKey)
        memory == NewMemory(memoryId, users[u].id, body, encrypted.value, now)
    IN  /\ Idle
        /\ Len(memories) < MaxMemories
        /\ IF body.content = "" \/ body.type \notin MemoryTypes \/ body.source = ""
           THEN /\ resp' = [op |-> "create", user |-> uid, status |-> 400,
                            req |-> body]
                /\ UNCHANGED <<users, memories, now>>
           ELSE IF u = ""
           THEN /\ resp' = [op |-> "create", user |-> uid, status |-> 404,
                            req |-> body]
                /\ UNCHANGED <<users, memories, now>>
           ELSE IF ~encrypted.ok
           THEN /\ resp' = [op |-> "create", user |-> uid, status |-> 500,
                            req |-> body]
                /\ UNCHANGED <<users, memories, now>>
           ELSE /\ memories' = Append(memories, memory)
                /\ resp' = [op |-> "create", user |-> uid, status |-> 201,
                            req |-> body,
                            id |-> memoryId, type |-> body.type,
                            source |-> body.source, tags |-> body.tags,
                            entities |-> entities, timestamp |-> now]
                /\ UNCHANGED <<users, now>>

\* a create that counts the memory before it encrypts the content
CreateCountingFirst(uid, body) ==
    LET u == FindUser(uid)
        memoryId == Len(memories) + 1
        entities == extractEntities(body.content)
        encrypted == encryptData(body.content, users[u].publicKey)
        memory == NewMemory(memoryId, users[u].id, body, encrypted.value, now)
    IN  /\ Idle
        /\ Len(memories) < MaxMemories
        /\ IF body.content = "" \/ body.type \notin MemoryTypes \/ body.source = ""
           THEN /\ resp' = [op |-> "create", user |-> uid, status |-> 400,
                            req |-> body]
                /\ UNCHANGED <<users, memories, now>>
           ELSE IF u = ""
           THEN /\ resp' = [op |-> "create", user |-> uid, status |-> 404,
                            req |-> body]
                /\ UNCHANGED <<users, memories, now>>
           ELSE IF ~encrypted.ok
           THEN /\ users' = [users EXCEPT ![u].stats.totalMemories = @ + 1]
                /\ resp' = [op |-> "create", user |-> uid, status |-> 500,
                            req |-> body]
                /\ UNCHANGED <<memories, now>>
           ELSE /\ memories' = Append(memories, memory)
                /\ users' = [users EXCEPT ![u].stats.totalMemories = @ + 1]
                /\ resp' = [op |-> "create", user |-> uid, status |-> 201,
                            req |-> body,
                            id |-> memoryId, type |-> body.type,
                            source |-> body.source, tags |-> body.tags,
                            entities |-> entities, timestamp |-> now]
                /\ UNCHANGED now

Create(uid, body) ==
    LET u == FindUser(uid)
        memoryId == Len(memories) + 1
        entities == extractEntities(body.content)
        encrypted == encryptData(body.content, users[u].publicKey)
        memory == NewMemory(memoryId, users[u].id, body, encrypted.value, now)
    IN  /\ Idle
        /\ Len(memories) < MaxMemories
        /\ IF body.content = "" \/ body.type \notin MemoryTypes \/ body.source = ""
           THEN /\ resp' = [op |-> "create", user |-> uid, status |-> 400,
                            req |-> body]
                /\ UNCHANGED <<users, memories, now>>
           ELSE IF u = ""
           THEN /\ resp' = [op |-> "create", user |-> uid, status |-> 404,
                            req |-> body]
                /\ UNCHANGED <<users, memories, now>>
           ELSE IF ~encrypted.ok
           THEN /\ resp' = [op |-> "create", user |-> uid, status |-> 500,
                            req |-> body]
                /\ UNCHANGED <<users, memories, now>>
           ELSE /\ memories' = Append(memories, memory)
                /\ users' = [users EXCEPT ![u].stats.totalMemories = @ + 1]
                /\ resp' = [op |-> "create", user |-> uid, status |-> 201,
                            req |-> body,
                            id |-> memoryId, type |-> body.type,
                            source |-> body.source, tags |-> body.tags,
                            entities |-> entities, timestamp |-> now]
                /\ UNCHANGED now

(***************************************************************************)
(* GET /api/memories                                                       *)
(***************************************************************************)
DefaultListLimit == 50
DefaultSearchLimit == 20

\* a scan that forgets the owner
OwnedByAnyone(userId) == memories

\* memories owned by userId, in store order
OwnedBy(userId) == SelectSeq(memories, LAMBDA m : m.userId = userId)

\* a tags filter that asks for every listed tag
ListFilteredEveryTag(userId, q) ==
    LET owned == OwnedBy(userId)
        byType == IF Has(q, "type") /\ q.type # ""
                  THEN SelectSeq(owned, LAMBDA m : m.type = q.type)
                  ELSE owned
        bySource == IF Has(q, "source") /\ q.source # ""
                    THEN SelectSeq(byType, LAMBDA m : m.source = q.source)
                    ELSE byType
        tagList == IF Has(q, "tags") THEN split(q.tags, ",") ELSE <<>>
    IN  IF Has(q, "tags") /\ q.tags # ""
        THEN SelectSeq(bySource, LAMBDA m :
                \A i \in 1..Len(tagList) : arrayIncludes(m.tags, tagList[i]))
        ELSE bySource

ListFiltered(userId, q) ==
    LET owned == OwnedBy(userId)
        byType == IF Has(q, "type") /\ q.type # ""
                  THEN SelectSeq(owned, LAMBDA m : m.type = q.type)
                  ELSE owned
        bySource == IF Has(q, "source") /\ q.source # ""
                    THEN SelectSeq(byType, LAMBDA m : m.source = q.source)
                    ELSE byType
        tagList == IF Has(q, "tags") THEN split(q.tags, ",") ELSE <<>>
    IN  IF Has(q, "tags") /\ q.tags # ""
        THEN SelectSeq(bySource, LAMBDA m :
                \E i \in 1..Len(tagList) : arrayIncludes(m.tags, tagList[i]))
        ELSE bySource

\* a sort with the operands of the subtraction exchanged
ListSortedOldestFirst(userId, q) ==
    LET found == ListFiltered(userId, q)
    IN  sort(found, [i \in 1..Len(found) |-> [j \in 1..Len(found) |->
                found[i].timestamp - found[j].timestamp > 0]])

\* memories.sort((a, b) => new Date(b.timestamp) - new Date(a.timestamp))
ListSorted(userId, q) ==
    LET found == ListFiltered(userId, q)
    IN  sort(found, [i \in 1..Len(found) |-> [j \in 1..Len(found) |->
                found[j].timestamp - found[i].timestamp > 0]])

\* parseInt(limit): limit is the number 50 by default, else the string sent
ListLimit(q) == IF Has(q, "limit") THEN parseInt(q.limit) ELSE DefaultListLimit

\* the first argument of slice: offset, the number 0 or the string sent
SliceStart(q) == IF Has(q, "offset") THEN Max(0, parseInt(q.offset)) ELSE 0

\* the second argument of slice, offset + parseInt(limit): a sum when
\* offset is the number 0; when offset is a string, + concatenates and
\* slice converts the resulting string to a number (NaN converts to 0)
SliceEnd(q) ==
    IF ListLimit(q) < 0 THEN 0
    ELSE IF Has(q, "offset")
         THEN Max(0, parseInt(q.offset \o ToString(ListLimit(q))))
         ELSE 0 + ListLimit(q)

ListPage(userId, q) == slice(ListSorted(userId, q), SliceStart(q), SliceEnd(q))

\* a summary that carries the ciphertext along
SummaryWithCiphertext(m) ==
    [id |-> m.id, type |-> m.type, source |-> m.source, tags |-> m.tags,
     entities |-> m.entities, encryptedContent |-> m.encryptedContent,
     timestamp |-> m.timestamp, accessCount |-> m.accessCount,
     relevanceScore |-> m.relevanceScore]

Summary(m) ==
    [id |-> m.id, type |-> m.type, source |-> m.source, tags |-> m.tags,
     entities |-> m.entities,
     timestamp |-> m.timestamp, accessCount |-> m.accessCount,
     relevanceScore |-> m.relevanceScore]

\* a list handler that counts an access for every record it returns
ListCountingAccess(uid, q) ==
    LET page == ListPage(uid, q)
    IN  /\ Idle
        /\ resp' = [op |-> "list", user |-> uid, status |-> 200, req |-> q,
                    memories |-> [i \in 1..Len(page) |-> Summary(page[i])],
                    total |-> Len(ListFiltered(uid, q)),
                    limit |-> ListLimit(q),
                    offset |-> IF Has(q, "offset") THEN parseInt(q.offset) ELSE 0]
        /\ memories' = [i \in 1..Len(memories) |->
                IF \E j \in 1..Len(page) : page[j].id = memories[i].id
                THEN [memories[i] EXCEPT !.accessCount = @ + 1]
                ELSE memories[i]]
        /\ UNCHANGED <<users, now>>

List(uid, q) ==
    LET page == ListPage(uid, q)
    IN  /\ Idle
        /\ resp' = [op |-> "list", user |-> uid, status |-> 200, req |-> q,
                    memories |-> [i \in 1..Len(page) |-> Summary(page[i])],
                    total |-> Len(ListFiltered(uid, q)),
                    limit |-> ListLimit(q),
                    offset |-> IF Has(q, "offset") THEN parseInt(q.offset) ELSE 0]
        /\ UNCHANGED <<users, memories, now>>

(***************************************************************************)
(* POST /api/memories/search                                               *)
(***************************************************************************)
\* { keywords: query.toLowerCase().split(' '), ...context }
SearchContext(body) ==
    IF Has(body, "context") /\ Has(body.context, "keywords")
    THEN [hasKeywords |-> TRUE, keywords |-> body.context.keywords]
    ELSE [hasKeywords |-> TRUE, keywords |-> split(toLowerCase(body.query), " ")]

SearchLimit(body) == IF Has(body, "limit") THEN body.limit ELSE DefaultSearchLimit

\* the copies { ...m, relevanceScore } of the user's records
Scored(userId, body) ==
    LET owned == OwnedBy(userId)
    IN  [i \in 1..Len(owned) |->
            [owned[i] EXCEPT !.relevanceScore =
                calculateRelevanceScore(owned[i], SearchContext(body))]]

\* a lower relevance threshold
ThresholdQuarter == Num(1, 4)

\* a higher relevance threshold
ThresholdThreeFifths == Num(3, 5)

Threshold == Num(1, 2)

\* a ranking that is not cut to the limit
RelevantUnlimited(userId, body) ==
    LET above == SelectSeq(Scored(userId, body),
                           LAMBDA m : Greater(m.relevanceScore, Threshold))
    IN  sort(above, [i \in 1..Len(above) |-> [j \in 1..Len(above) |->
                Greater(above[j].relevanceScore, above[i].relevanceScore)]])

\* .filter(m => m.relevanceScore > 0.5)
\* .sort((a, b) => b.relevanceScore - a.relevanceScore).slice(0, limit)
Relevant(userId, body) ==
    LET above == SelectSeq(Scored(userId, body),
                           LAMBDA m : Greater(m.relevanceScore, Threshold))
    IN  slice(sort(above, [i \in 1..Len(above) |-> [j \in 1..Len(above) |->
                    Greater(above[j].relevanceScore, above[i].relevanceScore)]]),
              0, SearchLimit(body))

\* the result for one relevant copy m: null when decryptData throws
SearchResult(m, privateKey) ==
    LET decrypted == decryptData(m.encryptedContent, privateKey)
    IN  IF decrypted.ok
        THEN [null |-> FALSE,
              value |-> [id |-> m.id, content |-> decrypted.value,
                         type |-> m.type, source |-> m.source, tags |-> m.tags,
                         entities |-> m.entities,
                         timestamp |-> m.timestamp,
                         relevanceScore |-> m.relevanceScore]]
        ELSE [null |-> TRUE, value |-> "null"]

\* a map that gives up on the whole list when one record does not open
SearchResultsAllOrNothing(userId, body, privateKey) ==
    LET relevant == Relevant(userId, body)
    IN  IF \E i \in 1..Len(relevant) : SearchResult(relevant[i], privateKey).null
        THEN <<>>
        ELSE [i \in 1..Len(relevant) |-> SearchResult(relevant[i], privateKey).value]

\* relevantMemories.map(...).filter(Boolean)
SearchResults(userId, body, privateKey) ==
    LET relevant == Relevant(userId, body)
        kept == SelectSeq([i \in 1..Len(relevant) |->
                            SearchResult(relevant[i], privateKey)],
                       LAMBDA r : ~r.null)
    IN  [i \in 1..Len(kept) |-> kept[i].value]

\* m.accessCount = (m.accessCount || 0) + 1 is an assignment to the copy m
\* made by the spread { ...m }: the record held by db.memories is not written
\* a search that stamps the caller's records with the time of the search
SearchStoreRestamping(userId, body, privateKey) ==
    [i \in 1..Len(memories) |->
        IF memories[i].userId = userId
        THEN [memories[i] EXCEPT !.timestamp = now]
        ELSE memories[i]]

\* a search that writes the access count back to the store
SearchStoreCounting(userId, body, privateKey) ==
    LET returned == {r.id : r \in {SearchResults(userId, body, privateKey)[k] :
                        k \in 1..Len(SearchResults(userId, body, privateKey))}}
    IN  [i \in 1..Len(memories) |->
            IF memories[i].id \in returned
            THEN [memories[i] EXCEPT !.accessCount = @ + 1]
            ELSE memories[i]]

SearchStore(userId, body, privateKey) == memories

Search(uid, body) ==
    LET u == FindUser(uid)
        results == SearchResults(uid, body, users[u].privateKey)
    IN  /\ Idle
        /\ IF body.query = ""
           THEN /\ resp' = [op |-> "search", user |-> uid, status |-> 400,
                            req |-> body]
                /\ UNCHANGED <<users, memories, now>>
           ELSE IF u = ""
           THEN /\ resp' = [op |-> "search", user |-> uid, status |-> 404]
                /\ UNCHANGED <<users, memories, now>>
           ELSE /\ memories' = SearchStore(uid, body, users[u].privateKey)
                /\ resp' = [op |-> "search", user |-> uid, status |-> 200,
                            req |-> body, query |-> body.query,
                            results |-> results, totalFound |-> Len(results)]
                /\ UNCHANGED <<users, now>>

(***************************************************************************)
(* GET /api/dashboard/stats                                                *)
(***************************************************************************)
RecentDays == 7

\* a tally that notes each value once
CountByPresence(records, field) ==
    [v \in {records[i][field] : i \in 1..Len(records)} |-> 1]

\* memoryStats.byType / bySource: a count for every value that occurs
CountBy(records, field) ==
    [v \in {records[i][field] : i \in 1..Len(records)} |->
        Cardinality({i \in 1..Len(records) : records[i][field] = v})]

\* db.aiServices is never written: the user has no services
Dashboard(uid) ==
    LET u == FindUser(uid)
        owned == OwnedBy(uid)
    IN  /\ Idle
        /\ IF u = ""
           THEN resp' = [op |-> "dashboard", user |-> uid, status |-> 404,
                         json |-> [error |-> "User not found"]]
           ELSE resp' = [op |-> "dashboard", user |-> uid, status |-> 200,
                         json |->
                           [user |-> [id |-> users[u].id, name |-> users[u].name,
                                      email |-> users[u].email],
                            memories |->
                              [total |-> Len(owned),
                               byType |-> CountBy(owned, "type"),
                               bySource |-> CountBy(owned, "source"),
                               recentActivity |->
                                 Len(SelectSeq(owned, LAMBDA m :
                                        m.timestamp > now - RecentDays))],
                            services |-> [total |-> 0, active |-> 0,
                                          totalRequests |-> 0],
                            privacy |-> users[u].preferences]]
        /\ UNCHANGED <<users, memories, now>>

(***************************************************************************)
(* The response leaves the server; a day passes.                           *)
(***************************************************************************)
Send ==
    /\ ~Idle
    /\ resp' = NoResponse
    /\ UNCHANGED <<users, memories, now>>

Tick ==
    /\ Idle
    /\ \E t \in Instants : t > now /\ now' = t
    /\ UNCHANGED <<users, memories, resp>>

Next ==
    \/ \E body \in RegisterBodies, keygenOk \in BOOLEAN : Register(body, keygenOk)
    \/ \E body \in LoginBodies : Login(body)
    \/ \E uid \in TokenIds, body \in CreateBodies : Create(uid, body)
    \/ \E uid \in TokenIds, q \in ListQueries : List(uid, q)
    \/ \E uid \in TokenIds, body \in SearchBodies : Search(uid, body)
    \/ \E uid \in TokenIds : Dashboard(uid)
    \/ Send
    \/ Tick

Spec == Init /\ [][Next]_vars

(***************************************************************************)
(* The search handler as a function of the store it reads: db.memories is  *)
(* drawn from the stores of records that create builds, each sealed under  *)
(* the key of its owner or under another key, and search is applied to it. *)
(***************************************************************************)
StoredRecord(id, c) ==
    NewMemory(id, UserIdFor(c.owner), c.body,
              encryptData(c.body.content,
                          generateKeyPair(UserIdFor(c.sealedFor)).publicKey).value,
              0)

StoredChoices ==
    [owner : {"a@x.io", "b@x.io"}, sealedFor : {"a@x.io", "b@x.io"},
     body : {M1Body, M2Body}]

InitStored ==
    /\ users = [e \in {"a@x.io", "b@x.io"} |->
                  NewUser(CHOOSE body \in RegisterBodies :
                              normalizeEmail(body.email) = e /\ Len(body.password) >= 8)]
    /\ \E n \in 0..MaxMemories : \E c \in [1..n -> StoredChoices] :
          memories = [i \in 1..n |-> StoredRecord(i, c[i])]
    /\ now = 0
    /\ resp = NoResponse

NextStored ==
    \/ \E uid \in TokenIds, body \in SearchBodies : Search(uid, body)
    \/ Send

SpecStored == InitStored /\ [][NextStored]_vars

(***************************************************************************)
(* The same handlers fed memories whose content holds an email address, a  *)
(* URL or a date.  Scores do not matter here, so the clock stands still.   *)
(***************************************************************************)
EntityBodies ==
    { [content |-> "https://x.io/p", type |-> "document",
       source |-> "web", tags |-> <<"link">>],
      [content |-> "ask bob@x.io by 2025-03-14", type |-> "note",
       source |-> "mail", tags |-> <<"family">>] }

\* list queries with more than one filter
EntityListQueries ==
    ListQueries \cup
    { [type |-> "document", tags |-> "link,family"],
      [type |-> "note", source |-> "web"],
      [type |-> "note", source |-> "mail", tags |-> "family"] }

NextEntities ==
    \/ \E body \in RegisterBodies, keygenOk \in BOOLEAN : Register(body, keygenOk)
    \/ \E body \in LoginBodies : Login(body)
    \/ \E uid \in TokenIds, body \in EntityBodies : Create(uid, body)
    \/ \E uid \in TokenIds, q \in EntityListQueries : List(uid, q)
    \/ \E uid \in TokenIds, body \in SearchBodies : Search(uid, body)
    \/ \E uid \in TokenIds : Dashboard(uid)
    \/ Send

SpecEntities == Init /\ [][NextEntities]_vars
(***************************************************************************)
(* Properties.                                                             *)
(***************************************************************************)
IsList == resp.op = "list"
IsSearchOk == resp.op = "search" /\ resp.status = 200

\* the records of user id, in insertion order
RecordsOf(id) == SelectSeq(memories, LAMBDA m : m.userId = id)

Ids(items) == [i \in 1..Len(items) |-> items[i].id]

\* the plaintext of record m under the private key of its owner
PlainOf(m) ==
    decryptData(m.encryptedContent, users[FindUser(m.userId)].privateKey)

\* C1 (isolation): every memory in a list response or in a search response
\* is a record of the user the response goes to.
Isolation ==
    /\ IsList =>
        \A i \in 1..Len(resp.memories) :
            memories[resp.memories[i].id].userId = resp.user
    /\ IsSearchOk =>
        \A i \in 1..Len(resp.results) :
            memories[resp.results[i].id].userId = resp.user

\* a search answers one user with a record of theirs while the store holds
\* a record of another user with the same tags
IsolationWitness ==
    /\ IsSearchOk
    /\ Len(resp.results) > 0
    /\ \E i \in 1..Len(memories) :
        /\ memories[i].userId # resp.user
        /\ memories[i].tags = resp.results[1].tags

\* C2 (access counting): a successful search leaves the stored accessCount
\* of every memory it returns one greater than it was before the search.
AccessCountIncremented ==
    [][(resp'.op = "search" /\ resp'.status = 200) =>
        \A i \in 1..Len(resp'.results) :
            memories'[resp'.results[i].id].accessCount =
                memories[resp'.results[i].id].accessCount + 1]_vars

\* C3 (end-to-end search): the user owns M1 ("Meeting about budget", tags
\* budget) and M2 ("Birthday reminder", tags family, created one day after
\* M1) and searches for "budget" right after M2 is created.
IsM1(m) ==
    /\ m.type = "note" /\ m.tags = <<"budget">>
    /\ PlainOf(m) = [ok |-> TRUE, value |-> "Meeting about budget"]
IsM2(m) ==
    /\ m.type = "note" /\ m.tags = <<"family">>
    /\ PlainOf(m) = [ok |-> TRUE, value |-> "Birthday reminder"]

BudgetScenario ==
    /\ IsSearchOk
    /\ resp.req = [query |-> "budget"]
    /\ Len(RecordsOf(resp.user)) = 2
    /\ IsM1(RecordsOf(resp.user)[1])
    /\ IsM2(RecordsOf(resp.user)[2])
    /\ RecordsOf(resp.user)[2].timestamp = RecordsOf(resp.user)[1].timestamp + 1
    /\ now = RecordsOf(resp.user)[2].timestamp

\* C3 as claimed: the search returns M1 and does not return M2.
BudgetSearchReturnsOnlyM1 ==
    BudgetScenario => Ids(resp.results) = <<RecordsOf(resp.user)[1].id>>

\* C3 as amended: the search returns M1 first and M2 second, each with a
\* score above 0.5 (M2 by its recency term alone).
BudgetSearchReturnsM1ThenM2 ==
    BudgetScenario =>
        /\ Ids(resp.results) = Ids(RecordsOf(resp.user))
        /\ \A i \in 1..2 :
            /\ ~resp.results[i].relevanceScore.nan
            /\ 2 * resp.results[i].relevanceScore.num
                    > resp.results[i].relevanceScore.den
        /\ resp.results[1].content = "Meeting about budget"
        /\ resp.results[2].content = "Birthday reminder"

BudgetScenarioWitness == BudgetScenario /\ Len(resp.results) = 2

\* C4 (pagination): with limit L >= 1 and offset O >= 0 both sent, the page
\* is the elements at positions O .. O+L-1 of the filtered, sorted list.
ExpectedPage(sorted, O, L) ==
    SubSeq(sorted, IF O < Len(sorted) THEN O + 1 ELSE Len(sorted) + 1,
                   IF O + L < Len(sorted) THEN O + L ELSE Len(sorted))

PageIsOffsetToOffsetPlusLimit ==
    (/\ IsList
     /\ "limit" \in DOMAIN resp.req
     /\ "offset" \in DOMAIN resp.req
     /\ resp.limit >= 1
     /\ resp.offset >= 0) =>
        /\ Len(resp.memories) <= resp.limit
        /\ Ids(resp.memories) =
            ExpectedPage(Ids(ListSorted(resp.user, resp.req)),
                         resp.offset, resp.limit)

\* C5 (search threshold): every result carries the score computed by this
\* search, that score is above 0.5, and no record of the user whose score
\* is at most 0.5 is among the results.
ScoreNow(m, body) == calculateRelevanceScore(m, SearchContext(body))

AboveHalf(score) == ~score.nan /\ 2 * score.num > score.den

SearchThreshold ==
    IsSearchOk =>
        /\ \A i \in 1..Len(resp.results) :
            /\ resp.results[i].relevanceScore =
                    ScoreNow(memories[resp.results[i].id], resp.req)
            /\ AboveHalf(resp.results[i].relevanceScore)
        /\ \A j \in 1..Len(memories) :
            ~AboveHalf(ScoreNow(memories[j], resp.req)) =>
                \A i \in 1..Len(resp.results) :
                    resp.results[i].id # memories[j].id

\* a search returns one record of the user and leaves out another, whose
\* score is at most 0.5
SearchThresholdWitness ==
    /\ IsSearchOk
    /\ Len(resp.results) > 0
    /\ \E j \in 1..Len(memories) :
        /\ memories[j].userId = resp.user
        /\ ~AboveHalf(ScoreNow(memories[j], resp.req))

\* C6 (score bound): for every record and every context the search handler
\* builds, calculateRelevanceScore is a number between 0 and 10.
ScoreBounded ==
    \A j \in 1..Len(memories) :
        \A body \in SearchBodies :
            body.query # "" =>
                /\ ~ScoreNow(memories[j], body).nan
                /\ ScoreNow(memories[j], body).num >= 0
                /\ ScoreNow(memories[j], body).num
                        <= 10 * ScoreNow(memories[j], body).den

ListOrdered ==
    IsList =>
        /\ \A i, j \in 1..Len(resp.memories) :
            i < j =>
                \/ resp.memories[i].timestamp > resp.memories[j].timestamp
                \/ /\ resp.memories[i].timestamp = resp.memories[j].timestamp
                   /\ resp.memories[i].id < resp.memories[j].id
        /\ (/\ resp.req = NoParams
            /\ Len(RecordsOf(resp.user)) = 2
            /\ RecordsOf(resp.user)[2].timestamp
                    = RecordsOf(resp.user)[1].timestamp + 1) =>
                Ids(resp.memories) = <<RecordsOf(resp.user)[2].id,
                                       RecordsOf(resp.user)[1].id>>

\* a list of three records: the newest, then two of one timestamp
ListOrderedWitness ==
    /\ IsList
    /\ Len(resp.memories) = 3
    /\ resp.memories[1].timestamp > resp.memories[2].timestamp
    /\ resp.memories[2].timestamp = resp.memories[3].timestamp

\* C9 (list is read-only on accessCount): a list request changes the
\* accessCount of no stored memory.
ListKeepsAccessCount ==
    [][resp'.op = "list" =>
        /\ Len(memories') = Len(memories)
        /\ \A i \in 1..Len(memories) :
            memories'[i].accessCount = memories[i].accessCount]_vars

ListKeepsAccessCountWitness == IsList /\ Len(resp.memories) > 0

\* C10 (search size): a search returns at most limit results, totalFound
\* is the number of results, and limit = 1 gives exactly one result when a
\* record of the user scores above 0.5.
SearchSize ==
    (IsSearchOk /\ SearchLimit(resp.req) >= 0) =>
        /\ Len(resp.results) <= SearchLimit(resp.req)
        /\ resp.totalFound = Len(resp.results)
        /\ (/\ SearchLimit(resp.req) = 1
            /\ \E j \in 1..Len(memories) :
                /\ memories[j].userId = resp.user
                /\ PlainOf(memories[j]).ok
                /\ AboveHalf(ScoreNow(memories[j], resp.req))) =>
                Len(resp.results) = 1

\* a search with limit 1 returns one of two records that score above 0.5
SearchSizeWitness ==
    /\ IsSearchOk
    /\ "limit" \in DOMAIN resp.req /\ resp.req.limit = 1
    /\ Len(resp.results) = 1
    /\ \E j, k \in 1..Len(memories) :
        /\ j # k
        /\ memories[j].userId = resp.user
        /\ memories[k].userId = resp.user
        /\ AboveHalf(ScoreNow(memories[j], resp.req))
        /\ AboveHalf(ScoreNow(memories[k], resp.req))

\* the strings a create response or a list item shows: type, source, tags
\* and the extracted entities
EntityStrings(entities) ==
    UNION {{entities[f][i] : i \in 1..Len(entities[f])} : f \in DOMAIN entities}

ShownStrings(item) ==
    {item.type, item.source} \cup {item.tags[i] : i \in 1..Len(item.tags)}
        \cup EntityStrings(item.entities)

SecretFields == {"privateKey", "passwordHash"}
ContentFields == {"content", "encryptedContent"}

\* no private key and no password hash in the response of any handler
NoKeyNoHash ==
    /\ DOMAIN resp \cap SecretFields = {}
    /\ resp.op \in {"register", "login", "dashboard"} =>
          /\ DOMAIN resp.json \cap SecretFields = {}
          /\ Has(resp.json, "user") =>
                /\ DOMAIN resp.json.user \cap SecretFields = {}
                /\ Has(resp.json.user, "publicKey") =>
                      resp.json.user.publicKey.kind = "public"
    /\ IsList => \A i \in 1..Len(resp.memories) :
          DOMAIN resp.memories[i] \cap SecretFields = {}
    /\ IsSearchOk => \A i \in 1..Len(resp.results) :
          DOMAIN resp.results[i] \cap SecretFields = {}

\* no content and no encryptedContent field in a create or a list response
NoContentField ==
    /\ resp.op = "create" => DOMAIN resp \cap ContentFields = {}
    /\ IsList => \A i \in 1..Len(resp.memories) :
          DOMAIN resp.memories[i] \cap ContentFields = {}

\* decrypted content goes to the owner of the record only, never with the
\* ciphertext
PlaintextToOwnerOnly ==
    IsSearchOk => \A i \in 1..Len(resp.results) :
        /\ ~Has(resp.results[i], "encryptedContent")
        /\ memories[resp.results[i].id].userId = resp.user
        /\ resp.results[i].content = PlainOf(memories[resp.results[i].id]).value

\* C11 as stated: no response of the six handlers holds a private key or a
\* password hash; a create or a list response holds neither the ciphertext
\* nor the plaintext of a memory, in a field of its own or as one of the
\* strings it shows; plaintext goes out only in search responses to the owner.
NoSecretLeak ==
    /\ NoKeyNoHash
    /\ NoContentField
    /\ PlaintextToOwnerOnly
    /\ (resp.op = "create" /\ resp.status = 201) =>
          resp.req.content \notin ShownStrings(resp)
    /\ IsList => \A i \in 1..Len(resp.memories) :
          PlainOf(memories[resp.memories[i].id]).value
              \notin ShownStrings(resp.memories[i])

\* C11 amended: no response holds a private key or a password hash; a create
\* or a list response has no content and no encryptedContent field, and what
\* it shows of the plaintext is exactly the emails, URLs and dates that
\* extractEntities matched in it (all of the plaintext, when the content is
\* one such match); the decrypted content goes out only in search responses
\* to the owner.
NoSecretLeakButEntities ==
    /\ NoKeyNoHash
    /\ NoContentField
    /\ PlaintextToOwnerOnly
    /\ (resp.op = "create" /\ resp.status = 201) =>
          resp.entities = extractEntities(resp.req.content)
    /\ IsList => \A i \in 1..Len(resp.memories) :
          resp.memories[i].entities =
              extractEntities(PlainOf(memories[resp.memories[i].id]).value)

\* a list response shows a memory whose whole content is one URL
NoSecretLeakWitness ==
    /\ IsList
    /\ \E i \in 1..Len(resp.memories) :
          /\ resp.memories[i].entities.urls # <<>>
          /\ PlainOf(memories[resp.memories[i].id]).value
                \in ShownStrings(resp.memories[i])

\* C12 (unknown user): a create, list or search request whose verified
\* userId names no stored user is never answered with success: it is
\* answered not-found as soon as it passes validation.
UnknownUserNotFound ==
    (resp.op \in {"create", "list", "search"} /\ FindUser(resp.user) = "") =>
        /\ resp.status \notin {200, 201}
        /\ Has(resp, "req") => resp.status \in {400, 404}

\* record m opens under the private key of user id
Opens(m, id) ==
    decryptData(m.encryptedContent, users[FindUser(id)].privateKey).ok

\* C13 (decryption failure is per record): a search by an existing user with
\* a query succeeds whatever records fail to decrypt; its results are the
\* relevant records that do decrypt, in their rank order, the others left out.
DecryptFailureSkipsRecord ==
    resp.op = "search" =>
        \/ resp.status = 400 /\ resp.req.query = ""
        \/ resp.status = 404 /\ FindUser(resp.user) = ""
        \/ /\ resp.status = 200
           /\ Ids(resp.results) =
                 Ids(SelectSeq(Relevant(resp.user, resp.req),
                               LAMBDA m : Opens(m, resp.user)))
           /\ resp.totalFound = Len(resp.results)

\* a search in which a record that fails to decrypt ranks before one that is
\* returned
DecryptFailureWitness ==
    /\ IsSearchOk
    /\ LET relevant == Relevant(resp.user, resp.req)
       IN  \E i, j \in 1..Len(relevant) :
              /\ i < j
              /\ ~Opens(relevant[i], resp.user)
              /\ Opens(relevant[j], resp.user)
              /\ relevant[j].id = resp.results[Len(resp.results)].id

\* the body passes the validators of POST /api/memories
ValidCreate(body) ==
    /\ body.content # ""
    /\ body.type \in {"conversation", "document", "note", "insight"}
    /\ body.source # ""

\* C14 (encryption failure aborts create): a valid create by an existing user
\* whose content cannot be encrypted is answered with a failure, adds no
\* record and leaves the user's totalMemories as it was.
EncryptFailureAborts ==
    [][(/\ resp'.op = "create"
        /\ resp' # resp
        /\ ValidCreate(resp'.req)
        /\ FindUser(resp'.user) # ""
        /\ ~encryptData(resp'.req.content,
                        users[FindUser(resp'.user)].publicKey).ok)
       => (/\ resp'.status = 500
           /\ memories' = memories
           /\ users' = users)]_vars

\* a failed encryption answered while the user already owns a memory
EncryptFailureWitness ==
    /\ resp.op = "create"
    /\ resp.status = 500
    /\ ~encryptData(resp.req.content, users[FindUser(resp.user)].publicKey).ok
    /\ users[FindUser(resp.user)].stats.totalMemories = 1
    /\ Len(RecordsOf(resp.user)) = 1

\* C15 (type validation): a create whose type is not one of conversation,
\* document, note, insight is answered with a validation failure and stores
\* nothing; every memory in the store has a type in that set.
TypeValidated ==
    [][/\ (/\ resp'.op = "create"
           /\ resp' # resp
           /\ resp'.req.type \notin {"conversation", "document", "note", "insight"})
          => (/\ resp'.status = 400
              /\ memories' = memories
              /\ users' = users)
       /\ \A i \in 1..Len(memories') :
             memories'[i].type \in {"conversation", "document", "note", "insight"}]_vars

\* a create of type video refused while the store holds a memory
TypeValidatedWitness ==
    /\ resp.op = "create"
    /\ resp.status = 400
    /\ resp.req.type = "video"
    /\ FindUser(resp.user) # ""
    /\ Len(memories) > 0

\* C16 (registration is all-or-nothing in the key pair): a registration whose
\* key pair generation fails is answered with a failure and leaves no user
\* record under that email; every user record holds the public and the
\* private key of one pair.
KeysAllOrNothing ==
    /\ (resp.op = "register" /\ resp.status = 500) =>
          normalizeEmail(resp.req.email) \notin DOMAIN users
    /\ (resp.op = "register" /\ resp.status = 201) =>
          normalizeEmail(resp.req.email) \in DOMAIN users
    /\ \A e \in DOMAIN users :
          /\ users[e].publicKey.kind = "public"
          /\ users[e].privateKey.kind = "private"
          /\ users[e].publicKey.pair = users[e].privateKey.pair

\* a registration that failed in key generation, next to a registered user
KeysAllOrNothingWitness ==
    /\ resp.op = "register"
    /\ resp.status = 500
    /\ DOMAIN users # {}

\* C17 (recency monotonicity): of two memories scored at the same instant the
\* one with the later timestamp has a recency term at least as large as the
\* other's, and no memory's recency term exceeds 1.0.
RecencyMonotone ==
    /\ \A i, j \in 1..Len(memories) :
          memories[i].timestamp >= memories[j].timestamp =>
              ~Greater(RecencyTerm(memories[j]), RecencyTerm(memories[i]))
    /\ \A i \in 1..Len(memories) :
          /\ memories[i].timestamp <= now
          /\ ~Greater(RecencyTerm(memories[i]), Num(1, 1))

\* a memory older than ten days, whose term is 0, next to a newer one with a
\* larger term, and a memory created this instant, whose term is 1.0
RecencyMonotoneWitness ==
    /\ \E i, j \in 1..Len(memories) :
          /\ now - memories[j].timestamp > 10
          /\ RecencyTerm(memories[j]) = Num(0, 10)
          /\ Greater(RecencyTerm(memories[i]), RecencyTerm(memories[j]))
    /\ \E i \in 1..Len(memories) : RecencyTerm(memories[i]) = Num(10, 10)

\* the lower-cased keywords that occur in the plaintext of m and in none of
\* its tags
ContentOnlyKeywords(m, context) ==
    {k \in {toLowerCase(context.keywords[i]) : i \in 1..Len(context.keywords)} :
        /\ includes(toLowerCase(PlainOf(m).value), k)
        /\ \A t \in 1..Len(m.tags) : ~includes(toLowerCase(m.tags[t]), k)}

\* C18 (context overlap uses the content): in a search, a memory of the
\* caller whose plaintext content contains a keyword that none of its tags
\* contains has a context-overlap term above zero.
ContentKeywordCounts ==
    IsSearchOk =>
        \A i \in 1..Len(memories) :
            (/\ memories[i].userId = resp.user
             /\ ContentOnlyKeywords(memories[i], SearchContext(resp.req)) # {})
            => Greater(ContextTerm(memories[i], SearchContext(resp.req)), Num(0, 1))

\* C19 (query tokens are merged): the keywords a search scores with contain
\* every lower-cased, space-separated token of the query, also when the
\* request carries context.keywords of its own.
QueryTokensMerged ==
    IsSearchOk =>
        LET tokens == split(toLowerCase(resp.req.query), " ")
        IN  \A i \in 1..Len(tokens) :
                arrayIncludes(SearchContext(resp.req).keywords, tokens[i])

SameNumber(a, b) == ~a.nan /\ ~b.nan /\ a.num * b.den = b.num * a.den

\* C20 (empty keywords contribute zero): in a search whose keywords list is
\* empty every memory of the caller scores min(recency + frequency, 10), and
\* every one whose recency + frequency exceeds 0.5 is returned.
EmptyKeywordsZero ==
    (IsSearchOk /\ SearchContext(resp.req).keywords = <<>>) =>
        \A i \in 1..Len(memories) :
            memories[i].userId = resp.user =>
                LET base == Plus(RecencyTerm(memories[i]), FrequencyTerm(memories[i]))
                IN  /\ SameNumber(ScoreNow(memories[i], resp.req),
                                  MathMin(base, Num(10, 1)))
                    /\ Greater(base, Threshold) =>
                          \E r \in 1..Len(resp.results) :
                              resp.results[r].id = memories[i].id

\* C21 (search ordering): the results of a search are in non-increasing order
\* of the score computed in that call, records with equal scores stand in
\* store insertion order, also when records that do not decrypt are dropped.
SearchOrdered ==
    IsSearchOk =>
        /\ \A i \in 1..Len(resp.results) :
              SameNumber(resp.results[i].relevanceScore,
                         ScoreNow(memories[resp.results[i].id], resp.req))
        /\ \A i, j \in 1..Len(resp.results) :
              i < j =>
                /\ ~Greater(resp.results[j].relevanceScore,
                            resp.results[i].relevanceScore)
                /\ SameNumber(resp.results[i].relevanceScore,
                              resp.results[j].relevanceScore)
                      => resp.results[i].id < resp.results[j].id

\* two results of equal score, above 5 by a keyword match, around a record
\* of the same score that was dropped because it does not decrypt
SearchOrderedWitness ==
    /\ IsSearchOk
    /\ \E i, j \in 1..Len(resp.results) :
          /\ Greater(resp.results[i].relevanceScore, Num(5, 1))
          /\ i < j
          /\ SameNumber(resp.results[i].relevanceScore,
                        resp.results[j].relevanceScore)
          /\ \E k \in 1..Len(memories) :
                /\ resp.results[i].id < k
                /\ k < resp.results[j].id
                /\ memories[k].userId = resp.user
                /\ ~Opens(memories[k], resp.user)
                /\ SameNumber(ScoreNow(memories[k], resp.req),
                              resp.results[i].relevanceScore)

\* C22 (effect of a successful create): it appends one record whose id is
\* new, whose userId is the requester and whose accessCount is 0, adds 1 to
\* the requester's totalMemories, and changes no other record and no other
\* field of any user.
CreateEffect ==
    [][(resp'.op = "create" /\ resp'.status = 201 /\ resp' # resp) =>
        /\ Len(memories') = Len(memories) + 1
        /\ SubSeq(memories', 1, Len(memories)) = memories
        /\ \A i \in 1..Len(memories) :
              memories[i].id # memories'[Len(memories')].id
        /\ memories'[Len(memories')].id = resp'.id
        /\ memories'[Len(memories')].userId = resp'.user
        /\ memories'[Len(memories')].accessCount = 0
        /\ FindUser(resp'.user) # ""
        /\ users' = [users EXCEPT
                       ![FindUser(resp'.user)].stats.totalMemories = @ + 1]]_vars

\* a create answered with success in a store that already holds a record of
\* the requester and a record of another user
CreateEffectWitness ==
    /\ resp.op = "create"
    /\ resp.status = 201
    /\ Len(memories) = 3
    /\ \E i \in 1..2 : memories[i].userId = resp.user
    /\ \E i \in 1..2 : memories[i].userId # resp.user
    /\ users[FindUser(resp.user)].stats.totalMemories = 2

\* record m belongs to user id and passes every filter that query q supplies
PassesFilters(m, id, q) ==
    /\ m.userId = id
    /\ Has(q, "type") => m.type = q.type
    /\ Has(q, "source") => m.source = q.source
    /\ Has(q, "tags") =>
          \E t \in 1..Len(m.tags) : arrayIncludes(split(q.tags, ","), m.tags[t])

MatchingIds(id, q) ==
    {memories[i].id : i \in {j \in 1..Len(memories) : PassesFilters(memories[j], id, q)}}

\* C23 (list filtering): a list response holds only memories of the requester
\* that pass every supplied filter, all of them when the request does not
\* paginate, and its total is the number of such memories.
ListFilter ==
    IsList =>
        /\ resp.total = Cardinality(MatchingIds(resp.user, resp.req))
        /\ {resp.memories[i].id : i \in 1..Len(resp.memories)}
              \subseteq MatchingIds(resp.user, resp.req)
        /\ (~Has(resp.req, "limit") /\ ~Has(resp.req, "offset")) =>
              {resp.memories[i].id : i \in 1..Len(resp.memories)}
                  = MatchingIds(resp.user, resp.req)

\* a list with a type and a tags filter that keeps one of the requester's
\* memories and leaves out another
ListFilterWitness ==
    /\ IsList
    /\ Has(resp.req, "type") /\ Has(resp.req, "tags")
    /\ Len(resp.memories) > 0
    /\ Len(resp.memories) < Len(RecordsOf(resp.user))

\* the number of records of user id in the store
OwnedCount(id) == Cardinality({i \in 1..Len(memories) : memories[i].userId = id})

\* C24 (no lost updates): requests are handled one after the other in any
\* order; every successful create adds 1 to the requester's totalMemories,
\* so the counter equals the number of the user's successful creates, and
\* every search adds 1 to the accessCount of each memory it returns.
NoLostUpdates ==
    [][/\ (resp'.op = "create" /\ resp'.status = 201 /\ resp' # resp) =>
             users'[FindUser(resp'.user)].stats.totalMemories =
                 users[FindUser(resp'.user)].stats.totalMemories + 1
       /\ \A e \in DOMAIN users' :
             users'[e].stats.totalMemories =
                 Cardinality({i \in 1..Len(memories') :
                                 memories'[i].userId = users'[e].id})
       /\ (resp'.op = "search" /\ resp'.status = 200 /\ resp' # resp) =>
             \A i \in 1..Len(resp'.results) :
                 memories'[resp'.results[i].id].accessCount >
                     memories[resp'.results[i].id].accessCount]_vars

\* C25 (atomic creation visibility): every record that a list or a search can
\* read has its id, userId, ciphertext, entities and timestamp, the
\* ciphertext opening under its owner's key, and is counted in its owner's
\* totalMemories; the items of a list response carry id, entities and
\* timestamp.
AtomicCreation ==
    /\ \A i \in 1..Len(memories) :
          /\ {"id", "userId", "encryptedContent", "entities", "timestamp"}
                \subseteq DOMAIN memories[i]
          /\ memories[i].id = i
          /\ FindUser(memories[i].userId) # ""
          /\ PlainOf(memories[i]).ok
          /\ {"emails", "urls", "dates"} \subseteq DOMAIN memories[i].entities
          /\ memories[i].timestamp <= now
          /\ users[FindUser(memories[i].userId)].stats.totalMemories
                >= OwnedCount(memories[i].userId)
    /\ IsList => \A i \in 1..Len(resp.memories) :
          {"id", "entities", "timestamp"} \subseteq DOMAIN resp.memories[i]

\* a list that shows the two memories of a user whose counter is 2, between
\* creates of another user
AtomicCreationWitness ==
    /\ IsList
    /\ Len(resp.memories) = 2
    /\ users[FindUser(resp.user)].stats.totalMemories = 2
    /\ Len(memories) = 3
    /\ memories[2].userId # resp.user

\* C26 (record immutability): no step removes a record from the store or
\* changes the id, userId, type, source, timestamp, entities or ciphertext of
\* a record that is in it.
RecordImmutable ==
    [][/\ Len(memories') >= Len(memories)
       /\ \A i \in 1..Len(memories) :
             \A f \in {"id", "userId", "type", "source", "timestamp",
                       "entities", "encryptedContent"} :
                 memories'[i][f] = memories[i][f]]_vars

\* a search that returns, days after its creation, a record made before two
\* later ones
RecordImmutableWitness ==
    /\ IsSearchOk
    /\ Len(memories) = 3
    /\ \E i \in 1..Len(resp.results) :
          /\ resp.results[i].id = 1
          /\ resp.results[i].timestamp = memories[1].timestamp
          /\ memories[1].timestamp < memories[3].timestamp
          /\ memories[3].timestamp < now

\* C27 (user uniqueness): no two user records share an id or an email, in
\* any letter case; a register request for an email that has a user is
\* rejected and leaves every user record as it was.
UserUnique ==
    [][/\ \A e1, e2 \in DOMAIN users' :
             e1 # e2 =>
                /\ users'[e1].id # users'[e2].id
                /\ toLowerCase(users'[e1].email) # toLowerCase(users'[e2].email)
       /\ \A e \in DOMAIN users' : users'[e].email = e
       /\ (/\ resp'.op = "register"
           /\ resp' # resp
           /\ normalizeEmail(resp'.req.email) \in DOMAIN users)
          => (resp'.status = 400 /\ users' = users)]_vars

\* a second registration of B@x.io, refused while b@x.io owns a memory and
\* another user exists
UserUniqueWitness ==
    /\ resp.op = "register"
    /\ resp.status = 400
    /\ Has(resp.json, "error")
    /\ resp.req.email = "B@x.io"
    /\ DOMAIN users = {"a@x.io", "b@x.io"}
    /\ users["b@x.io"].stats.totalMemories > 0

\* the sum of the counts of a tally
RECURSIVE SumOver(_, _)
SumOver(counts, keys) ==
    IF keys = {} THEN 0
    ELSE LET k == CHOOSE x \in keys : TRUE
         IN  counts[k] + SumOver(counts, keys \ {k})

SumOfCounts(counts) == SumOver(counts, DOMAIN counts)

\* C28 (counter consistency): every user's stats.totalMemories is the number
\* of records in the store with that user's id; the dashboard reports that
\* number as memories.total, and its byType counts and its bySource counts
\* each add up to it.
CountersConsistent ==
    /\ \A e \in DOMAIN users :
          users[e].stats.totalMemories = OwnedCount(users[e].id)
    /\ (resp.op = "dashboard" /\ resp.status = 200) =>
          /\ resp.json.memories.total = OwnedCount(resp.user)
          /\ resp.json.memories.total =
                users[FindUser(resp.user)].stats.totalMemories
          /\ SumOfCounts(resp.json.memories.byType) = resp.json.memories.total
          /\ SumOfCounts(resp.json.memories.bySource) = resp.json.memories.total

\* a dashboard of a user with three memories from two sources, or with two
\* next to a memory of another user
CountersConsistentWitness ==
    /\ resp.op = "dashboard"
    /\ resp.status = 200
    /\ resp.json.memories.total >= 2
    /\ Len(memories) = 3
    /\ Cardinality(DOMAIN resp.json.memories.bySource) = 2
    /\ resp.json.memories.byType["note"] = resp.json.memories.total

RankOf(i, id, body) ==
    1 + Cardinality({j \in 1..Len(memories) :
            /\ j # i
            /\ memories[j].userId = id
            /\ AboveHalf(ScoreNow(memories[j], body))
            /\ \/ Greater(ScoreNow(memories[j], body), ScoreNow(memories[i], body))
               \/ /\ ~Greater(ScoreNow(memories[i], body), ScoreNow(memories[j], body))
                  /\ j < i})

\* C30 (recency alone passes the threshold): a search with a non-empty
\* keywords list returns every memory of the caller that is less than 5 days
\* old, decrypts and ranks within the limit, whether a keyword matches it or
\* not.
RecencyPasses ==
    (IsSearchOk /\ SearchContext(resp.req).keywords # <<>>) =>
        \A i \in 1..Len(memories) :
            (/\ memories[i].userId = resp.user
             /\ now - memories[i].timestamp < 5
             /\ Opens(memories[i], resp.user)
             /\ RankOf(i, resp.user, resp.req) <= SearchLimit(resp.req))
            => \E r \in 1..Len(resp.results) : resp.results[r].id = memories[i].id

\* a search that returns a memory four days old that no keyword matches, with
\* the score 0.6 of its recency term, and leaves out one five days old
RecencyPassesWitness ==
    /\ IsSearchOk
    /\ SearchContext(resp.req).keywords # <<>>
    /\ \E r \in 1..Len(resp.results) :
          /\ now - resp.results[r].timestamp = 4
          /\ SameNumber(resp.results[r].relevanceScore, Num(3, 5))
    /\ \E i \in 1..Len(memories) :
          /\ memories[i].userId = resp.user
          /\ now - memories[i].timestamp >= 5
          /\ \A r \in 1..Len(resp.results) : resp.results[r].id # i

====
